---- MODULE Spec2Model ----
(***************************************************************************)
(* Model of api/index.py: a FastAPI application with two coordinate        *)
(* conversion routes (pyproj) and two proxy routes to the Opinet API       *)
(* (httpx).                                                                *)
(*                                                                         *)
(* Text (query-string values, response bodies, messages) is a sequence of  *)
(* one-character strings, or a single string where only equality matters.  *)
(* A float is modelled by an integer: a positive one for a finite value,   *)
(* -1 for the non-finite ones (inf, nan).                                  *)
(* pyproj and httpx are external: a transformer is an unknown but fixed    *)
(* function chosen when the module is loaded, and the outcome of an        *)
(* outbound call is chosen by the environment.                             *)
(***************************************************************************)
EXTENDS Integers, Sequences, FiniteSets, TLC

\* ------------------------------------------------------------------ bounds

\* Number of concurrent request slots of SpecConcurrent.
NumRequests == 2
\* Longest upstream body text of Spec.
MaxBodyLen == 2

Requests == 1..NumRequests

\* --------------------------------------------------------------- constants

KATEC_TO_WGS84 == "/katec-to-wgs84"
WGS84_TO_KATEC == "/wgs84-to-katec"
NEARBY == "/api/nearby-gas-stations"
DETAIL == "/api/detailById"

ProxyRoutes == {NEARBY, DETAIL}

OPINET_API_KEY == "F250930867"
DefaultRadius == 5000
DefaultProdcd == "B027"

\* URL of the outbound call of each proxy route.
OPINET_API_URL(route) ==
    IF route = NEARBY THEN "https://www.opinet.co.kr/api/aroundAll.do"
    ELSE "https://www.opinet.co.kr/api/detailById.do"

\* ------------------------------------------------- the handlers' signatures

\* Query-string text that parses as a float / an int (the values the model
\* draws; any other text, such as "abc", does not parse). "inf" parses as a
\* float, to infinity.
FloatOf == ("1" :> 1) @@ ("2" :> 2) @@ ("inf" :> -1)
IsFinite(v) == v > 0
IntOf == ("100" :> 100)

\* The declared parameters of each handler, by type.
FloatParams(route) ==
    CASE route = KATEC_TO_WGS84 -> {"x", "y"}
      [] route = WGS84_TO_KATEC -> {"lon", "lat"}
      [] route = NEARBY -> {"x", "y"}
      [] route = DETAIL -> {}

IntParams(route) == IF route = NEARBY THEN {"radius"} ELSE {}

StrParams(route) ==
    CASE route = NEARBY -> {"prodcd"}
      [] route = DETAIL -> {"uid"}
      [] OTHER -> {}

Signature(route) == FloatParams(route) \cup IntParams(route) \cup StrParams(route)

\* Fault variant: uid is declared with an empty-string default.
DefaultsAllOptional(route) ==
    CASE route = NEARBY -> [radius |-> DefaultRadius, prodcd |-> DefaultProdcd]
      [] route = DETAIL -> [uid |-> ""]
      [] OTHER -> <<>>

\* The parameters that have a default value, with that value (already typed).
Defaults(route) ==
    IF route = NEARBY
    THEN [radius |-> DefaultRadius, prodcd |-> DefaultProdcd]
    ELSE <<>>

RequiredParams(route) == Signature(route) \ DOMAIN Defaults(route)

\* FastAPI's request validation, from the signature: every required parameter
\* is present and every present declared parameter parses to its type.
\* Undeclared query parameters are ignored.
Validates(q) ==
    /\ RequiredParams(q.route) \subseteq DOMAIN q.query
    /\ \A n \in FloatParams(q.route) \cap DOMAIN q.query : q.query[n] \in DOMAIN FloatOf
    /\ \A n \in IntParams(q.route) \cap DOMAIN q.query : q.query[n] \in DOMAIN IntOf

\* The value the handler receives for parameter n.
Arg(q, n) ==
    IF n \in DOMAIN q.query
    THEN CASE n \in FloatParams(q.route) -> FloatOf[q.query[n]]
           [] n \in IntParams(q.route) -> IntOf[q.query[n]]
           [] OTHER -> q.query[n]
    ELSE Defaults(q.route)[n]

\* ------------------------------------------------------------------- pyproj

Floats == {FloatOf[s] : s \in DOMAIN FloatOf}
Pairs == Floats \X Floats

Returned(out) == [ok |-> TRUE, out |-> out]
Raised(msg) == [ok |-> FALSE, msg |-> msg]

ProjMessage == <<"p", "r", "o", "j">>

\* What transform gives for an input it cannot transform: it is called
\* without errcheck, so it returns (inf, inf) and raises nothing.
Invalid == Returned(<<-1, -1>>)

\* The finite inputs a transformer raises on / cannot transform. (transform
\* raising is kept as a possibility so that the except clause has a case.)
FailSets == {<<{}, {}>>, <<{<<2, 1>>}, {}>>, <<{}, {<<2, 1>>}>>}

\* Candidate behaviours of Transformer.transform: a function of the input
\* pair that either raises or returns a pair (first, second).
TransformersFrom(dx, dy) ==
    {[p \in Pairs |->
        IF ~(IsFinite(p[1]) /\ IsFinite(p[2])) THEN Invalid
        ELSE IF p \in F[1] THEN Raised(ProjMessage)
        ELSE IF p \in F[2] THEN Invalid
        ELSE Returned(<<p[1] + dx, p[2] + dy>>)] : F \in FailSets}

\* -------------------------------------------------------------------- httpx

NoReply == [kind |-> "none"]
Response(status, text) == [kind |-> "response", status_code |-> status, text |-> text]
RequestError(msg) == [kind |-> "RequestError", msg |-> msg]
\* An exception that is neither httpx.RequestError nor httpx.HTTPStatusError
\* (httpx.InvalidURL, RuntimeError, ...).
OtherError(msg) == [kind |-> "Exception", msg |-> msg]

\* Response.raise_for_status() returns for 2xx and raises HTTPStatusError
\* for every other status.
IsSuccess(status) == status >= 200 /\ status <= 299

\* --------------------------------------------------------------- responses

NoResponse == [kind |-> "none"]
Json(body) == [kind |-> "json", status_code |-> 200, body |-> body]
HTTPException(status, detail) ==
    [kind |-> "HTTPException", status_code |-> status, detail |-> detail]
RequestValidationError == [kind |-> "RequestValidationError", status_code |-> 422]
\* An exception that left the handler.
Unhandled(msg) == [kind |-> "unhandled", msg |-> msg]

\* The fixed texts the f-strings put before the message / the body (the
\* source's Korean words are given in English: only their position matters).
RequestFailedPrefix == <<"Opinet API request failed: ">>
ApiErrorPrefix == <<"Opinet API error: ">>

\* -------------------------------------------------------------------- state

VARIABLES
    transformer_to_wgs84,   \* KATEC -> WGS84, built once at import
    transformer_to_katec,   \* WGS84 -> KATEC, built once at import
    pc,                     \* per request: idle, handler, awaiting, done
    req,                    \* per request: the inbound request
    conversions,            \* per request: transform calls made, in order
    outbound,               \* per request: outbound GETs issued, in order
    upstream,               \* per request: outcome of its own outbound call
    resp                    \* per request: the reply to the caller

vars == <<transformer_to_wgs84, transformer_to_katec, pc, req, conversions,
          outbound, upstream, resp>>

NoRequest == [route |-> "none", query |-> <<>>]

Init ==
    /\ transformer_to_wgs84 \in TransformersFrom(10, 20)
    /\ transformer_to_katec \in TransformersFrom(30, 40)
    /\ pc = [r \in Requests |-> "idle"]
    /\ req = [r \in Requests |-> NoRequest]
    /\ conversions = [r \in Requests |-> <<>>]
    /\ outbound = [r \in Requests |-> <<>>]
    /\ upstream = [r \in Requests |-> NoReply]
    /\ resp = [r \in Requests |-> NoResponse]

\* ------------------------------------------------------------------ actions

\* A request arrives; FastAPI validates the query against the signature of
\* the route's handler and calls the handler only if it validates.
Receive(r, q) ==
    /\ pc[r] = "idle"
    /\ req' = [req EXCEPT ![r] = q]
    /\ IF Validates(q)
       THEN /\ pc' = [pc EXCEPT ![r] = "handler"]
            /\ resp' = resp
       ELSE /\ pc' = [pc EXCEPT ![r] = "done"]
            /\ resp' = [resp EXCEPT ![r] = RequestValidationError]
    /\ UNCHANGED <<transformer_to_wgs84, transformer_to_katec, conversions,
                   outbound, upstream>>

\* The dict a conversion handler returns is rendered as JSON after the
\* handler has returned, outside its try: the rendering (allow_nan=False)
\* raises ValueError on a non-finite float.
Render(content) ==
    IF \E k \in DOMAIN content : ~IsFinite(content[k])
    THEN Unhandled(<<"ValueError">>)
    ELSE Json(content)

\* The body of a conversion handler: try transform, return the pair under
\* the names first/second, except Exception -> 400 with str(e).
ConvertResult(outcome, first, second) ==
    IF outcome.ok
    THEN Render((first :> outcome.out[1]) @@ (second :> outcome.out[2]))
    ELSE HTTPException(400, outcome.msg)

convert_katec_to_wgs84(r) ==
    /\ pc[r] = "handler"
    /\ req[r].route = KATEC_TO_WGS84
    /\ LET in == <<Arg(req[r], "x"), Arg(req[r], "y")>>
       IN /\ conversions' = [conversions EXCEPT ![r] = Append(@, <<"to_wgs84", in>>)]
          /\ resp' = [resp EXCEPT ![r] =
                        ConvertResult(transformer_to_wgs84[in], "lon", "lat")]
    /\ pc' = [pc EXCEPT ![r] = "done"]
    /\ UNCHANGED <<transformer_to_wgs84, transformer_to_katec, req, outbound, upstream>>

convert_wgs84_to_katec(r) ==
    /\ pc[r] = "handler"
    /\ req[r].route = WGS84_TO_KATEC
    /\ LET in == <<Arg(req[r], "lon"), Arg(req[r], "lat")>>
       IN /\ conversions' = [conversions EXCEPT ![r] = Append(@, <<"to_katec", in>>)]
          /\ resp' = [resp EXCEPT ![r] =
                        ConvertResult(transformer_to_katec[in], "x", "y")]
    /\ pc' = [pc EXCEPT ![r] = "done"]
    /\ UNCHANGED <<transformer_to_wgs84, transformer_to_katec, req, outbound, upstream>>

\* Fault variant: the caller's query is merged over the fixed parameters.
NearbyParamsMerged(q) ==
    LET fixed == [code |-> OPINET_API_KEY, x |-> Arg(q, "x"), y |-> Arg(q, "y"),
                  radius |-> Arg(q, "radius"), prodcd |-> Arg(q, "prodcd"),
                  out |-> "xml"]
    IN [n \in DOMAIN fixed |->
          IF n \in {"code", "out"} /\ n \in DOMAIN q.query THEN q.query[n]
          ELSE fixed[n]]

\* The params dict of get_nearby_gas_stations.
NearbyParams(q) ==
    [code |-> OPINET_API_KEY, x |-> Arg(q, "x"), y |-> Arg(q, "y"),
     radius |-> Arg(q, "radius"), prodcd |-> Arg(q, "prodcd"), out |-> "xml"]

\* The params dict of detail_by_id.
DetailParams(q) ==
    [code |-> OPINET_API_KEY, id |-> Arg(q, "uid"), out |-> "xml"]

\* The handler up to its await: build params, issue client.get, suspend.
get_nearby_gas_stations(r) ==
    /\ pc[r] = "handler"
    /\ req[r].route = NEARBY
    /\ outbound' = [outbound EXCEPT ![r] =
          Append(@, [url |-> OPINET_API_URL(NEARBY), params |-> NearbyParams(req[r])])]
    /\ pc' = [pc EXCEPT ![r] = "awaiting"]
    /\ UNCHANGED <<transformer_to_wgs84, transformer_to_katec, req, conversions,
                   upstream, resp>>

detail_by_id(r) ==
    /\ pc[r] = "handler"
    /\ req[r].route = DETAIL
    /\ outbound' = [outbound EXCEPT ![r] =
          Append(@, [url |-> OPINET_API_URL(DETAIL), params |-> DetailParams(req[r])])]
    /\ pc' = [pc EXCEPT ![r] = "awaiting"]
    /\ UNCHANGED <<transformer_to_wgs84, transformer_to_katec, req, conversions,
                   upstream, resp>>

\* The environment settles the outbound call of r: a response, a transport
\* failure, or another exception.
UpstreamReply(r, reply) ==
    /\ pc[r] = "awaiting"
    /\ upstream[r] = NoReply
    /\ upstream' = [upstream EXCEPT ![r] = reply]
    /\ UNCHANGED <<transformer_to_wgs84, transformer_to_katec, pc, req, conversions,
                   outbound, resp>>

\* Text without its leading and trailing spaces.
RECURSIVE Strip(_)
Strip(t) ==
    IF t = <<>> THEN t
    ELSE IF Head(t) = " " THEN Strip(Tail(t))
    ELSE IF t[Len(t)] = " " THEN Strip(SubSeq(t, 1, Len(t) - 1))
    ELSE t

\* Fault variant: the body is stripped before it is wrapped.
ProxyResultStripped(reply) ==
    CASE reply.kind = "response" /\ IsSuccess(reply.status_code) ->
            Json([xml_data |-> Strip(reply.text)])
      [] reply.kind = "response" /\ ~IsSuccess(reply.status_code) ->
            HTTPException(reply.status_code, ApiErrorPrefix \o reply.text)
      [] reply.kind = "RequestError" ->
            HTTPException(400, RequestFailedPrefix \o reply.msg)
      [] OTHER -> Unhandled(reply.msg)

\* Fault variant: an upstream error status is reported as 400, without body.
ProxyResultFlattened(reply) ==
    CASE reply.kind = "response" /\ IsSuccess(reply.status_code) ->
            Json([xml_data |-> reply.text])
      [] reply.kind = "response" /\ ~IsSuccess(reply.status_code) ->
            HTTPException(400, ApiErrorPrefix)
      [] reply.kind = "RequestError" ->
            HTTPException(400, RequestFailedPrefix \o reply.msg)
      [] OTHER -> Unhandled(reply.msg)

\* Fault variant: a transport failure is reported as 502 Bad Gateway.
ProxyResultBadGateway(reply) ==
    CASE reply.kind = "response" /\ IsSuccess(reply.status_code) ->
            Json([xml_data |-> reply.text])
      [] reply.kind = "response" /\ ~IsSuccess(reply.status_code) ->
            HTTPException(reply.status_code, ApiErrorPrefix \o reply.text)
      [] reply.kind = "RequestError" ->
            HTTPException(502, RequestFailedPrefix \o reply.msg)
      [] OTHER -> Unhandled(reply.msg)

\* The handler after its await: raise_for_status, return / except clauses.
ProxyResult(reply) ==
    CASE reply.kind = "response" /\ IsSuccess(reply.status_code) ->
            Json([xml_data |-> reply.text])
      [] reply.kind = "response" /\ ~IsSuccess(reply.status_code) ->
            HTTPException(reply.status_code, ApiErrorPrefix \o reply.text)
      [] reply.kind = "RequestError" ->
            HTTPException(400, RequestFailedPrefix \o reply.msg)
      [] OTHER -> Unhandled(reply.msg)

\* Fault variant: the response is kept in one place shared by all requests.
AwaitedReplyShared(r) == upstream[CHOOSE q \in Requests : upstream[q] # NoReply]

\* The reply the resumed handler of r sees: that of its own client.get.
AwaitedReply(r) == upstream[r]

\* Fault variant: a failed call is issued once more before giving up.
ResumeRetrying(r) ==
    /\ pc[r] = "awaiting"
    /\ upstream[r] # NoReply
    /\ IF Len(outbound[r]) < 2 /\ ProxyResult(AwaitedReply(r)).kind # "json"
       THEN /\ outbound' = [outbound EXCEPT ![r] = Append(@, @[1])]
            /\ upstream' = [upstream EXCEPT ![r] = NoReply]
            /\ UNCHANGED <<pc, resp>>
       ELSE /\ resp' = [resp EXCEPT ![r] = ProxyResult(AwaitedReply(r))]
            /\ pc' = [pc EXCEPT ![r] = "done"]
            /\ UNCHANGED <<outbound, upstream>>
    /\ UNCHANGED <<transformer_to_wgs84, transformer_to_katec, req, conversions>>

Resume(r) ==
    /\ pc[r] = "awaiting"
    /\ upstream[r] # NoReply
    /\ resp' = [resp EXCEPT ![r] = ProxyResult(AwaitedReply(r))]
    /\ pc' = [pc EXCEPT ![r] = "done"]
    /\ UNCHANGED <<transformer_to_wgs84, transformer_to_katec, req, conversions,
                   outbound, upstream>>

\* ------------------------------------------------------------------- inputs

\* All queries that give each name of vals either no value or one of vals[n].
QuerySet(vals) ==
    UNION {{f \in [D -> UNION {vals[n] : n \in DOMAIN vals}] :
                \A n \in D : f[n] \in vals[n]} : D \in SUBSET DOMAIN vals}

Inbound ==
    {[route |-> KATEC_TO_WGS84, query |-> f] :
        f \in QuerySet([x |-> {"1", "2", "inf", "abc"}, y |-> {"1", "2"}])}
    \cup {[route |-> WGS84_TO_KATEC, query |-> f] :
        f \in QuerySet([lon |-> {"1", "2"}, lat |-> {"1", "2", "abc"}])}
    \cup {[route |-> NEARBY, query |-> f] :
        f \in QuerySet([x |-> {"1", "abc"}, y |-> {"2"}, radius |-> {"100"},
                        prodcd |-> {"D047"}, code |-> {"EVIL"}, out |-> {"json"}])}
    \cup {[route |-> DETAIL, query |-> f] :
        f \in QuerySet([uid |-> {"A0001"}, code |-> {"EVIL"}, out |-> {"json"},
                        id |-> {"B0002"}])}

BodyChars == {"a", " "}
Bodies == UNION {[1..n -> BodyChars] : n \in 0..MaxBodyLen}
Statuses == {200, 204, 301, 404, 500}
TransportMessage == <<"t">>
OtherMessage == <<"o">>

Replies ==
    {Response(s, b) : s \in Statuses, b \in Bodies}
    \cup {RequestError(TransportMessage), OtherError(OtherMessage)}

SmallInbound ==
    {[route |-> KATEC_TO_WGS84, query |-> [x |-> "1", y |-> "2"]],
     [route |-> KATEC_TO_WGS84, query |-> [x |-> "2"]],
     [route |-> WGS84_TO_KATEC, query |-> [lon |-> "2", lat |-> "1"]],
     [route |-> WGS84_TO_KATEC, query |-> [lon |-> "inf", lat |-> "1"]],
     [route |-> NEARBY, query |-> [x |-> "1", y |-> "2"]],
     [route |-> DETAIL, query |-> [uid |-> "A0001"]]}

SmallReplies ==
    {Response(200, <<"a">>), Response(500, <<"b">>),
     RequestError(TransportMessage), OtherError(OtherMessage)}

\* ----------------------------------------------------------- specifications

Handler(r) ==
    \/ convert_katec_to_wgs84(r)
    \/ convert_wgs84_to_katec(r)
    \/ get_nearby_gas_stations(r)
    \/ detail_by_id(r)
    \/ Resume(r)

\* One request at a time, every input.
Next ==
    \/ \E q \in Inbound : Receive(1, q)
    \/ convert_katec_to_wgs84(1)
    \/ convert_wgs84_to_katec(1)
    \/ get_nearby_gas_stations(1)
    \/ detail_by_id(1)
    \/ \E reply \in Replies : UpstreamReply(1, reply)
    \/ Resume(1)

Spec == Init /\ [][Next]_vars

\* NumRequests requests interleaved in every order.
NextConcurrent ==
    \E r \in Requests :
        \/ \E q \in SmallInbound : Receive(r, q)
        \/ convert_katec_to_wgs84(r)
        \/ convert_wgs84_to_katec(r)
        \/ get_nearby_gas_stations(r)
        \/ detail_by_id(r)
        \/ \E reply \in SmallReplies : UpstreamReply(r, reply)
        \/ Resume(r)

SpecConcurrent == Init /\ [][NextConcurrent]_vars

\* ------------------------------------------------------------------- claims

Done(r) == pc[r] = "done"
IsProxy(r) == req[r].route \in ProxyRoutes
Got2xx(r) ==
    /\ upstream[r].kind = "response"
    /\ upstream[r].status_code \in 200..299
GotNon2xx(r) ==
    /\ upstream[r].kind = "response"
    /\ upstream[r].status_code \notin 200..299

\* t occurs at the end of d, element for element.
EndsWith(d, t) ==
    /\ Len(d) >= Len(t)
    /\ SubSeq(d, Len(d) - Len(t) + 1, Len(d)) = t

\* C1: a proxy request whose upstream answered 2xx is answered with status
\* 200 and a JSON object whose only field, xml_data, is the upstream body
\* text exactly as received.
C1_SuccessEnvelope ==
    \A r \in Requests :
        (Done(r) /\ IsProxy(r) /\ Got2xx(r)) =>
            /\ resp[r].kind = "json"
            /\ resp[r].status_code = 200
            /\ DOMAIN resp[r].body = {"xml_data"}
            /\ resp[r].body.xml_data = upstream[r].text

\* A 2xx reply other than 200, with a body that starts with a space, was wrapped.
C1_Witness ==
    \E r \in Requests :
        /\ Done(r) /\ IsProxy(r) /\ Got2xx(r)
        /\ upstream[r].status_code # 200
        /\ Len(upstream[r].text) = MaxBodyLen
        /\ upstream[r].text[1] = " "
        /\ resp[r].kind = "json"

\* C2: a proxy request whose upstream answered with a non-2xx status fails
\* with an HTTPException whose status code is the upstream's and whose
\* detail carries the upstream body text, unchanged, at its end.
C2_UpstreamErrorForwarded ==
    \A r \in Requests :
        (Done(r) /\ IsProxy(r) /\ GotNon2xx(r)) =>
            /\ resp[r].kind = "HTTPException"
            /\ resp[r].status_code = upstream[r].status_code
            /\ EndsWith(resp[r].detail, upstream[r].text)

C2_Witness ==
    \E r \in Requests :
        /\ Done(r) /\ req[r].route = DETAIL /\ GotNon2xx(r)
        /\ upstream[r].status_code = 301
        /\ Len(upstream[r].text) = MaxBodyLen
        /\ resp[r].kind = "HTTPException"

\* C3: a proxy request whose outbound call failed at the transport level is
\* answered with an HTTPException of status 400 and a non-empty detail, and
\* at no time with anything else.
C3_TransportFailureIs400 ==
    \A r \in Requests :
        (IsProxy(r) /\ upstream[r].kind = "RequestError") =>
            /\ resp[r].kind \in {"none", "HTTPException"}
            /\ Done(r) => /\ resp[r].kind = "HTTPException"
                          /\ resp[r].status_code = 400
                          /\ Len(resp[r].detail) > 0

C3_Witness ==
    \E r \in Requests :
        /\ Done(r) /\ IsProxy(r)
        /\ upstream[r].kind = "RequestError"
        /\ resp[r].status_code = 400

\* C4: a proxy invocation that passed validation has issued no outbound
\* request before it suspends, exactly one while it is suspended and exactly
\* one when it has ended, whatever the outcome of the call.
C4_ExactlyOneOutbound ==
    \A r \in Requests :
        IsProxy(r) =>
            /\ pc[r] = "handler" => Len(outbound[r]) = 0
            /\ pc[r] = "awaiting" => Len(outbound[r]) = 1
            /\ (Done(r) /\ resp[r].kind # "RequestValidationError") =>
                    Len(outbound[r]) = 1

C4_Witness ==
    \E r \in Requests :
        /\ Done(r) /\ IsProxy(r)
        /\ upstream[r].kind = "RequestError" \/ GotNon2xx(r)
        /\ Len(outbound[r]) = 1

\* The parameters the claim names as required, per route.
NamedRequired(route) ==
    CASE route = KATEC_TO_WGS84 -> {"x", "y"}
      [] route = NEARBY -> {"x", "y"}
      [] route = WGS84_TO_KATEC -> {"lon", "lat"}
      [] route = DETAIL -> {"uid"}
      [] OTHER -> {}

LacksRequired(r) == ~(NamedRequired(req[r].route) \subseteq DOMAIN req[r].query)

\* C5: a request that lacks a required query parameter has ended in a
\* client-error (4xx) response, and has made no transform call and issued no
\* outbound request.
C5_MissingParameterRejectedFirst ==
    \A r \in Requests :
        (req[r] # NoRequest /\ LacksRequired(r)) =>
            /\ Done(r)
            /\ resp[r].kind # "none"
            /\ resp[r].status_code \in 400..499
            /\ conversions[r] = <<>>
            /\ outbound[r] = <<>>

C5_Witness ==
    \E r \in Requests :
        /\ req[r].route = DETAIL
        /\ "uid" \notin DOMAIN req[r].query
        /\ "id" \in DOMAIN req[r].query
        /\ Done(r)
        /\ resp[r].status_code = 422

\* C6: every request that has ended has either a success body or a failure
\* mapped to an HTTP error response by the handler; no failure leaves the
\* handler unmapped.
C6_EveryFailureMapped ==
    \A r \in Requests :
        Done(r) => resp[r].kind \in {"json", "HTTPException", "RequestValidationError"}

\* C7: every outbound request of nearby-gas-stations carries exactly code,
\* x, y, radius, prodcd and out, with code the API key, out "xml", x, y the
\* caller's values and radius, prodcd the caller's values or 5000, "B027";
\* every outbound request of detailById carries exactly code, id and out,
\* with id the caller's uid; whatever else the caller sent.
C7_OutboundParameters ==
    \A r \in Requests : \A i \in 1..Len(outbound[r]) :
        LET p == outbound[r][i].params IN
        /\ p.code = "F250930867"
        /\ p.out = "xml"
        /\ req[r].route = NEARBY =>
            /\ DOMAIN p = {"code", "x", "y", "radius", "prodcd", "out"}
            /\ p.x = FloatOf[req[r].query.x]
            /\ p.y = FloatOf[req[r].query.y]
            /\ p.radius = IF "radius" \in DOMAIN req[r].query
                          THEN IntOf[req[r].query.radius] ELSE 5000
            /\ p.prodcd = IF "prodcd" \in DOMAIN req[r].query
                          THEN req[r].query.prodcd ELSE "B027"
        /\ req[r].route = DETAIL =>
            /\ DOMAIN p = {"code", "id", "out"}
            /\ p.id = req[r].query.uid

C7_Witness ==
    \E r \in Requests :
        /\ req[r].route = NEARBY
        /\ {"code", "out", "prodcd"} \subseteq DOMAIN req[r].query
        /\ "radius" \notin DOMAIN req[r].query
        /\ Len(outbound[r]) = 1
        /\ outbound[r][1].params.radius = 5000

\* The library failed on its input: it raised, or it returned the
\* non-finite pair that marks an invalid transformation.
LibraryFailed(outcome) ==
    ~outcome.ok \/ ~IsFinite(outcome.out[1]) \/ ~IsFinite(outcome.out[2])

\* What the claim says a conversion request is answered with, given the
\* outcome of the library on the caller's pair.
ConversionAnswered(r, outcome, first, second) ==
    IF LibraryFailed(outcome)
    THEN /\ resp[r].kind = "HTTPException"
         /\ resp[r].status_code = 400
         /\ ~outcome.ok => resp[r].detail = outcome.msg
         /\ "body" \notin DOMAIN resp[r]
    ELSE /\ resp[r].kind = "json"
         /\ resp[r].status_code = 200
         /\ DOMAIN resp[r].body = {first, second}
         /\ resp[r].body[first] = outcome.out[1]
         /\ resp[r].body[second] = outcome.out[2]

\* C8: a conversion request that reached its handler is answered with 400
\* and the library's message when the library failed on the input, and
\* otherwise with 200 and the library's pair, first component as lon
\* (resp. x), second as lat (resp. y).
C8_ConversionOutcome ==
    \A r \in Requests :
        (Done(r) /\ resp[r].kind # "RequestValidationError") =>
            /\ req[r].route = KATEC_TO_WGS84 =>
                 ConversionAnswered(r,
                    transformer_to_wgs84[<<FloatOf[req[r].query.x],
                                           FloatOf[req[r].query.y]>>],
                    "lon", "lat")
            /\ req[r].route = WGS84_TO_KATEC =>
                 ConversionAnswered(r,
                    transformer_to_katec[<<FloatOf[req[r].query.lon],
                                           FloatOf[req[r].query.lat]>>],
                    "x", "y")

\* While r waits for its upstream, every other request can take its next step.
NonBlocking ==
    \A r \in Requests : pc[r] = "awaiting" =>
        \A q \in Requests \ {r} :
            /\ pc[q] = "idle" => ENABLED (\E inb \in SmallInbound : Receive(q, inb))
            /\ pc[q] = "handler" => ENABLED Handler(q)
            /\ (pc[q] = "awaiting" /\ upstream[q] = NoReply) =>
                    ENABLED (\E reply \in SmallReplies : UpstreamReply(q, reply))
            /\ (pc[q] = "awaiting" /\ upstream[q] # NoReply) => ENABLED Resume(q)

\* The answer reflects the request's own upstream reply, and two requests
\* with the same parameters and the same upstream reply are answered alike.
OwnDataOnly ==
    /\ \A r \in Requests : (Done(r) /\ IsProxy(r)) =>
          /\ resp[r].kind = "json" =>
                Got2xx(r) /\ resp[r].body.xml_data = upstream[r].text
          /\ (resp[r].kind = "HTTPException" /\ upstream[r].kind = "response") =>
                resp[r].status_code = upstream[r].status_code
    /\ \A r, q \in Requests :
          (Done(r) /\ Done(q) /\ req[r] = req[q] /\ upstream[r] = upstream[q]) =>
                resp[r] = resp[q]

\* No step changes a transformer or the answer of a request that has ended.
NothingShared ==
    /\ transformer_to_wgs84' = transformer_to_wgs84
    /\ transformer_to_katec' = transformer_to_katec
    /\ \A r \in Requests : Done(r) => (pc'[r] = "done" /\ resp'[r] = resp[r])

\* C10: under every interleaving, a request waiting for its upstream blocks
\* no other request, each answer depends only on the request's own
\* parameters and own upstream reply, and the transformers never change.
C10_Independence ==
    /\ [](NonBlocking /\ OwnDataOnly)
    /\ [][NothingShared]_vars

C10_Witness ==
    \E r, q \in Requests :
        /\ r # q
        /\ pc[r] = "awaiting" /\ upstream[r] = NoReply
        /\ Done(q) /\ IsProxy(q)
        /\ Len(outbound[q]) = 1 /\ Len(outbound[r]) = 1

====
